---- MODULE Spec2Model ----
(***************************************************************************)
(* Model of cape_audit: the objective tree evaluator (cape_audit.py) and   *)
(* the report verifiers (verifiers.py).                                    *)
(***************************************************************************)
EXTENDS Integers, Sequences, FiniteSets, TLC

(* ---------------- bounds ---------------- *)
MaxObjs == 3
MaxPasses == 2
Names == {"a", "b"}

MaxListLen == 2
MaxCriteria == 2
MaxSegs == 2

(* ---------------- report values ---------------- *)
(* A value of the parsed report: None, a str (a sequence of characters), an int,  *)
(* a list or a dict (a function from str keys to values).                         *)
Null == [t |-> "null", v |-> <<>>]
PyStr(s) == [t |-> "str", v |-> s]
PyInt(n) == [t |-> "int", v |-> n]
PyList(s) == [t |-> "list", v |-> s]
PyDict(f) == [t |-> "dict", v |-> f]
EmptyDict == PyDict([k \in {} |-> Null])

NoVerifier == [path |-> <<>>, match_criteria |-> Null, is_regexes |-> FALSE, constructed |-> FALSE]
NoCall == [op |-> "none"]

(* ---------------- ObjectiveResult ---------------- *)
UNTESTED == "untested"
SUCCESS == "success"
FAILURE == "failure"
ERROR == "error"
INFO == "info"
SKIPPED == "skipped"

VARIABLES
  objects,      \* every CapeTestObjective created so far, indexed by identity
  attached,     \* identities that were added to the test or to a parent
  _objectives,  \* CapeDynamicTestBase._objectives: sequence of root identities
  test_report,  \* CapeDynamicTestBase.report: 0 = not loaded, k = report of the k-th evaluation
  stack,        \* call stack of the running evaluation (empty when idle)
  passes,       \* number of evaluation passes started
  passSet,      \* history: objectives in the tree when the current pass started
  outcome,      \* history: what each objective's verifier did in the current pass
  finalized,    \* history: objectives whose state was assigned in the current pass
  report_json,  \* the parsed report.json handed to the verifiers
  verifier,     \* the constructed VerifyReportSectionHasMatching, or NoVerifier
  call          \* the last verifier call: its name, its arguments and what it returned

treevars == <<objects, attached, _objectives, test_report, stack, passes, passSet, outcome, finalized>>
vvars == <<report_json, verifier, call>>

Ids == 1..Len(objects)

(* CapeTestObjective.__init__ *)
NewObjectiveRecord(objective_name, is_informational) ==
  [name |-> objective_name,
   children |-> <<>>,
   state |-> UNTESTED,
   state_reason |-> "Objective has not been tested yet",
   result_verifier |-> "MissingResultVerifier",
   is_informational |-> is_informational,
   report |-> 0]

(* the outcomes a bound verifier's evaluate can have; MissingResultVerifier always raises *)
VerifierOutcomes(result_verifier) ==
  IF result_verifier = "MissingResultVerifier" THEN {"raise"} ELSE {"true", "false", "raise"}

(* a state assignment that applies the informational flag only to a true result *)
ResultStateInfoOnTrue(result, is_informational) ==
  IF result = "raise" THEN ERROR
  ELSE IF result = "true" THEN (IF is_informational THEN INFO ELSE SUCCESS)
  ELSE FAILURE

(* state assigned by run_objective_verification for a verifier outcome *)
ResultState(result, is_informational) ==
  IF result = "raise" THEN ERROR
  ELSE IF is_informational THEN INFO
  ELSE IF result = "true" THEN SUCCESS ELSE FAILURE

(* state_reason assigned by run_objective_verification for a verifier outcome *)
ResultReason(result) ==
  IF result = "raise" THEN "An exception was thrown during verification"
  ELSE IF result = "true" THEN "_success_msg" ELSE "_failure_msg"

(* a dispatch that also descends below a failed objective *)
ChildrenAreEvaluatedUnlessError(state) == state \in {SUCCESS, INFO, FAILURE}

(* whether run_objective_verification evaluates the children (else it skips them) *)
ChildrenAreEvaluated(state) == state \in {SUCCESS, INFO}

RECURSIVE Subtree(_, _)
(* the objective o and everything below it, following children in objs *)
Subtree(objs, o) ==
  {o} \cup UNION {Subtree(objs, objs[o].children[k]) : k \in 1..Len(objs[o].children)}

Descendants(objs, o) == Subtree(objs, o) \ {o}

(* a set_skipped that does not recurse into the children *)
SetSkippedShallow(objs, o, reason) ==
  [objs EXCEPT ![o].state = SKIPPED, ![o].state_reason = reason]

(* set_skipped: the objective and all of its descendants become Skipped *)
SetSkipped(objs, o, reason) ==
  [x \in DOMAIN objs |->
     IF x \in Subtree(objs, o)
     THEN [objs[x] EXCEPT !.state = SKIPPED, !.state_reason = reason]
     ELSE objs[x]]

(* a set_test_data that keeps a context that was already set *)
SetTestDataOnce(objs, o, report) ==
  IF objs[o].report = 0 THEN [objs EXCEPT ![o].report = report] ELSE objs

(* set_test_data *)
SetTestData(objs, o, report) == [objs EXCEPT ![o].report = report]

SeqRange(s) == {s[k] : k \in 1..Len(s)}

ChildNames(objs, kids) == {objs[kids[k]].name : k \in 1..Len(kids)}

Frame(fn, self, pc) == [fn |-> fn, self |-> self, pc |-> pc, i |-> 1, result |-> "none"]

Top == stack[Len(stack)]
Pop == SubSeq(stack, 1, Len(stack) - 1)
ReplaceTop(f) == [stack EXCEPT ![Len(stack)] = f]

Idle == stack = <<>>

Init ==
  /\ objects = <<>>
  /\ attached = {}
  /\ _objectives = <<>>
  /\ test_report = 0
  /\ stack = <<>>
  /\ passes = 0
  /\ passSet = {}
  /\ outcome = <<>>
  /\ finalized = {}
  /\ report_json = Null
  /\ verifier = NoVerifier
  /\ call = NoCall

hist == <<passSet, outcome, finalized>>

(* set_result_verifier: the verifier object replaces the MissingResultVerifier default *)
SetResultVerifier(obj, evaluator_object) == [obj EXCEPT !.result_verifier = evaluator_object]

(* A test definition creates an objective and attaches its verifier before it adds *)
(* the objective to the tree; objectives are defined before the first evaluation.  *)
NewObjective ==
  /\ Idle
  /\ Len(objects) < MaxObjs
  /\ passes = 0
  /\ attached = Ids
  /\ \E n \in Names, inf \in BOOLEAN :
       objects' = Append(objects, SetResultVerifier(NewObjectiveRecord(n, inf), "bound"))
  /\ outcome' = Append(outcome, "none")
  /\ UNCHANGED <<attached, _objectives, test_report, stack, passes, passSet, finalized>>
  /\ UNCHANGED vvars

(* CapeDynamicTestBase.add_objective *)
AddObjective ==
  /\ Idle
  /\ \E o \in Ids \ attached :
       /\ objects[o].name \notin ChildNames(objects, _objectives)
       /\ _objectives' = Append(_objectives, o)
       /\ attached' = attached \cup {o}
  /\ UNCHANGED <<objects, test_report, stack, passes, hist>>
  /\ UNCHANGED vvars

(* an add_child_objective without the duplicate-name check *)
NameIsAlwaysFree(objs, kids, n) == TRUE

(* whether add_child_objective accepts the name among the parent's children *)
NameIsFree(objs, kids, n) == n \notin ChildNames(objs, kids)

(* CapeTestObjective.add_child_objective *)
AddChildObjective ==
  /\ Idle
  /\ \E o \in Ids \ attached, p \in attached :
       /\ NameIsFree(objects, objects[p].children, objects[o].name)
       /\ objects' = [objects EXCEPT ![o].report = objects[p].report,
                                     ![p].children = Append(@, o)]
       /\ attached' = attached \cup {o}
  /\ UNCHANGED <<_objectives, test_report, stack, passes, hist>>
  /\ UNCHANGED vvars

(* evaluate_results: load the report and enter _run_objective_verification *)
EvaluateResults ==
  /\ Idle
  /\ passes < MaxPasses
  /\ attached = Ids
  /\ passes' = passes + 1
  /\ test_report' = passes + 1
  /\ stack' = <<Frame("_run_objective_verification", 0, "for")>>
  /\ passSet' = attached
  /\ outcome' = [o \in Ids |-> "none"]
  /\ finalized' = {}
  /\ UNCHANGED <<objects, attached, _objectives>>
  /\ UNCHANGED vvars

(* _run_objective_verification: one iteration of the loop over the roots *)
RunRoot ==
  /\ ~Idle
  /\ Top.fn = "_run_objective_verification"
  /\ Top.i <= Len(_objectives)
  /\ LET o == _objectives[Top.i] IN
       /\ objects' = SetTestData(objects, o, test_report)
       /\ stack' = Append(ReplaceTop([Top EXCEPT !.i = @ + 1]),
                          Frame("run_objective_verification", o, "try"))
  /\ UNCHANGED <<attached, _objectives, test_report, passes, hist>>
  /\ UNCHANGED vvars

(* _run_objective_verification returns: the pass is over *)
RunDone ==
  /\ ~Idle
  /\ Top.fn = "_run_objective_verification"
  /\ Top.i > Len(_objectives)
  /\ stack' = Pop
  /\ UNCHANGED <<objects, attached, _objectives, test_report, passes, hist>>
  /\ UNCHANGED vvars

(* run_objective_verification: the call of result_verifier.evaluate *)
InvokeVerifier ==
  /\ ~Idle
  /\ Top.fn = "run_objective_verification"
  /\ Top.pc = "try"
  /\ \E r \in VerifierOutcomes(objects[Top.self].result_verifier) :
       /\ stack' = ReplaceTop([Top EXCEPT !.pc = "assign", !.result = r])
       /\ outcome' = [outcome EXCEPT ![Top.self] = r]
  /\ UNCHANGED <<objects, attached, _objectives, test_report, passes, passSet, finalized>>
  /\ UNCHANGED vvars

(* run_objective_verification without the except clause: a fault unwinds the whole call stack *)
AssignStateNoExcept ==
  /\ ~Idle
  /\ Top.fn = "run_objective_verification"
  /\ Top.pc = "assign"
  /\ IF Top.result = "raise"
     THEN /\ stack' = <<>>
          /\ UNCHANGED <<objects, finalized>>
     ELSE LET o == Top.self IN
          /\ objects' = [objects EXCEPT
                           ![o].state = ResultState(Top.result, objects[o].is_informational),
                           ![o].state_reason = ResultReason(Top.result)]
          /\ finalized' = finalized \cup {o}
          /\ stack' = ReplaceTop([Top EXCEPT !.pc = "for"])
  /\ UNCHANGED <<attached, _objectives, test_report, passes, passSet, outcome>>
  /\ UNCHANGED vvars

(* run_objective_verification: state and state_reason are assigned, the fault is caught *)
AssignState ==
  /\ ~Idle
  /\ Top.fn = "run_objective_verification"
  /\ Top.pc = "assign"
  /\ LET o == Top.self IN
       /\ objects' = [objects EXCEPT
                        ![o].state = ResultState(Top.result, objects[o].is_informational),
                        ![o].state_reason = ResultReason(Top.result)]
       /\ finalized' = finalized \cup {o}
  /\ stack' = ReplaceTop([Top EXCEPT !.pc = "for"])
  /\ UNCHANGED <<attached, _objectives, test_report, passes, passSet, outcome>>
  /\ UNCHANGED vvars

(* run_objective_verification: one iteration of the loop that evaluates the children *)
RunChild ==
  /\ ~Idle
  /\ Top.fn = "run_objective_verification"
  /\ Top.pc = "for"
  /\ ChildrenAreEvaluated(objects[Top.self].state)
  /\ Top.i <= Len(objects[Top.self].children)
  /\ LET child == objects[Top.self].children[Top.i] IN
       /\ objects' = SetTestData(objects, child, objects[Top.self].report)
       /\ stack' = Append(ReplaceTop([Top EXCEPT !.i = @ + 1]),
                          Frame("run_objective_verification", child, "try"))
  /\ UNCHANGED <<attached, _objectives, test_report, passes, hist>>
  /\ UNCHANGED vvars

(* run_objective_verification: one iteration of the loop that skips the children *)
SkipChild ==
  /\ ~Idle
  /\ Top.fn = "run_objective_verification"
  /\ Top.pc = "for"
  /\ ~ChildrenAreEvaluated(objects[Top.self].state)
  /\ Top.i <= Len(objects[Top.self].children)
  /\ LET child == objects[Top.self].children[Top.i] IN
       /\ objects' = SetSkipped(objects, child, "The parent objective was not met")
       /\ finalized' = finalized \cup Subtree(objects, child)
  /\ stack' = ReplaceTop([Top EXCEPT !.i = @ + 1])
  /\ UNCHANGED <<attached, _objectives, test_report, passes, passSet, outcome>>
  /\ UNCHANGED vvars

(* run_objective_verification returns to its caller *)
Return ==
  /\ ~Idle
  /\ Top.fn = "run_objective_verification"
  /\ Top.pc = "for"
  /\ Top.i > Len(objects[Top.self].children)
  /\ stack' = Pop
  /\ UNCHANGED <<objects, attached, _objectives, test_report, passes, hist>>
  /\ UNCHANGED vvars

Next ==
  \/ NewObjective
  \/ AddObjective
  \/ AddChildObjective
  \/ EvaluateResults
  \/ RunRoot
  \/ RunDone
  \/ InvokeVerifier
  \/ AssignState
  \/ RunChild
  \/ SkipChild
  \/ Return

vars == <<treevars, vvars>>

Spec == Init /\ [][Next]_vars

(* ---------------- verifiers.py: Python helpers ---------------- *)

(* bool(v): the truth value of a report value *)
PyTruthy(v) ==
  CASE v.t = "null" -> FALSE
    [] v.t = "str" -> Len(v.v) > 0
    [] v.t = "int" -> v.v # 0
    [] v.t = "list" -> Len(v.v) > 0
    [] v.t = "dict" -> DOMAIN v.v # {}

(* whether len(v) is defined *)
HasLen(v) == v.t \in {"str", "list", "dict"}

(* len(v) *)
PyLen(v) == IF v.t = "dict" THEN Cardinality(DOMAIN v.v) ELSE Len(v.v)

(* dict.get(key): None when the key is missing *)
DictGet(d, key) == IF key \in DOMAIN d.v THEN d.v[key] ELSE Null

RECURSIVE Split(_)
(* str.split('/') *)
Split(s) ==
  IF \A k \in 1..Len(s) : s[k] # "/" THEN <<s>>
  ELSE LET k == CHOOSE k \in 1..Len(s) : s[k] = "/" /\ \A j \in 1..(k-1) : s[j] # "/"
       IN <<SubSeq(s, 1, k - 1)>> \o Split(SubSeq(s, k + 1, Len(s)))

RECURSIVE Join(_)
(* "/".join(keys) *)
Join(keys) ==
  IF Len(keys) = 0 THEN <<>>
  ELSE IF Len(keys) = 1 THEN keys[1]
  ELSE keys[1] \o <<"/">> \o Join(Tail(keys))

RECURSIVE IntToStr(_)
(* str(n) of a non-negative int *)
IntToStr(n) ==
  LET digit == <<"0", "1", "2", "3", "4", "5", "6", "7", "8", "9">>[(n % 10) + 1]
  IN IF n < 10 THEN <<digit>> ELSE IntToStr(n \div 10) \o <<digit>>

RECURSIVE StrOf(_)
RECURSIVE ReprOf(_)
RECURSIVE ReprItems(_, _)
RECURSIVE ReprEntries(_, _)

(* str(v): the text of a value; lists and dicts are rendered through repr of their items *)
StrOf(v) ==
  CASE v.t = "null" -> <<"N", "o", "n", "e">>
    [] v.t = "str" -> v.v
    [] v.t = "int" -> IntToStr(v.v)
    [] v.t = "list" -> <<"[">> \o ReprItems(v.v, 1) \o <<"]">>
    [] v.t = "dict" -> <<"{">> \o ReprEntries(v.v, DOMAIN v.v) \o <<"}">>

(* repr(v): as str(v), with quotes around a str *)
ReprOf(v) == IF v.t = "str" THEN <<"'">> \o v.v \o <<"'">> ELSE StrOf(v)

ReprItems(items, k) ==
  IF k > Len(items) THEN <<>>
  ELSE ReprOf(items[k]) \o (IF k < Len(items) THEN <<",", " ">> ELSE <<>>) \o ReprItems(items, k + 1)

ReprEntries(f, keys) ==
  IF keys = {} THEN <<>>
  ELSE LET key == CHOOSE x \in keys : TRUE
       IN <<"'">> \o key \o <<"'", ":", " ">> \o ReprOf(f[key])
          \o (IF keys \ {key} # {} THEN <<",", " ">> ELSE <<>>) \o ReprEntries(f, keys \ {key})

(* pattern.search(text) for a pattern without metacharacters: the pattern occurs in the text *)
Search(pattern, text) ==
  \E i \in 0..(Len(text) - Len(pattern)) : SubSeq(text, i + 1, i + Len(pattern)) = pattern

(* ---------------- VerifyReportSectionHasMatching ---------------- *)

RECURSIVE CheckEachCriterion(_, _)
(* check_criteria_format: the loop over the criteria *)
CheckEachCriterion(criteria, k) ==
  IF k > Len(criteria) THEN "ok"
  ELSE IF ~HasLen(criteria[k]) THEN "TypeError"
  ELSE IF PyLen(criteria[k]) # 1 THEN "ValueError"
  ELSE CheckEachCriterion(criteria, k + 1)

(* check_criteria_format: "ok" or the exception it raises *)
CheckCriteriaFormat(match_criteria) ==
  IF match_criteria.t = "null" THEN "ok"
  ELSE IF match_criteria.t # "list" THEN "TypeError"
  ELSE CheckEachCriterion(match_criteria.v, 1)

(* a remaining path that drops the segment at which the list was met *)
RemainingPathAfter(keys, i) == Join(SubSeq(keys, i + 1, Len(keys)))

(* _resolve_path: remaining_path = "/".join(keys[i:]) *)
RemainingPath(keys, i) == Join(SubSeq(keys, i, Len(keys)))

(* _resolve_path: a result of one list item is merged into results *)
ExtendResults(results, res) ==
  IF res.t = "list" THEN results \o res.v
  ELSE IF res.t # "null" THEN Append(results, res)
  ELSE results

RECURSIVE ResolvePath(_, _)
RECURSIVE ResolveKeys(_, _, _)
RECURSIVE ResolveItems(_, _, _, _)

(* _resolve_path: the loop over the items of a list *)
ResolveItems(items, remaining_path, k, results) ==
  IF k > Len(items) THEN results
  ELSE ResolveItems(items, remaining_path, k + 1,
                    ExtendResults(results, ResolvePath(items[k], remaining_path)))

(* _resolve_path: the loop over the keys, from the i-th key on *)
ResolveKeys(current, keys, i) ==
  IF i > Len(keys) THEN current
  ELSE IF current.t = "list"
       THEN PyList(ResolveItems(current.v, RemainingPath(keys, i), 1, <<>>))
  ELSE IF current.t # "dict" THEN Null
  ELSE ResolveKeys(DictGet(current, keys[i]), keys, i + 1)

(* _resolve_path *)
ResolvePath(data, path) == ResolveKeys(data, Split(path), 1)

(* _verify_value: "True", "False", or "raise" when re.compile rejects the expected value *)
VerifyValue(found, expected, is_regexes) ==
  LET found_list == IF found.t = "list" THEN found.v ELSE <<found>>
  IN IF is_regexes
     THEN IF expected.t # "str" THEN "raise"
          ELSE IF \E k \in 1..Len(found_list) : Search(expected.v, StrOf(found_list[k]))
               THEN "True" ELSE "False"
     ELSE IF found.t = "list"
          THEN IF \E k \in 1..Len(found.v) : StrOf(found.v[k]) = StrOf(expected)
               THEN "True" ELSE "False"
          ELSE IF StrOf(found) = StrOf(expected) THEN "True" ELSE "False"

(* has_content *)
HasContent(rep, path) == IF PyTruthy(ResolvePath(rep, path)) THEN "True" ELSE "False"

(* evaluate: the targets, a non-list result wrapped in a list if it is truthy *)
Targets(rep, path) ==
  LET targets == ResolvePath(rep, path)
  IN IF targets.t = "list" THEN targets.v
     ELSE IF PyTruthy(targets) THEN <<targets>> ELSE <<>>

(* a match count that is carried over from one target to the next *)
KeepMatchCount(match_count) == match_count

(* evaluate: match_count = 0 at the start of each target *)
ResetMatchCount(match_count) == 0

RECURSIVE EvaluateLoop(_, _, _, _, _, _)
(* evaluate: the loops over the targets and the criteria; "raise" when a criterion has no items() *)
EvaluateLoop(targets, criteria, is_regexes, ti, ci, match_count) ==
  IF ti > Len(targets) THEN "False"
  ELSE IF ci > Len(criteria)
       THEN EvaluateLoop(targets, criteria, is_regexes, ti + 1, 1, ResetMatchCount(match_count))
  ELSE LET criterion == criteria[ci] IN
       IF criterion.t # "dict" \/ DOMAIN criterion.v = {} THEN "raise"
       ELSE LET expected_path == CHOOSE key \in DOMAIN criterion.v : TRUE
                expected_value == criterion.v[expected_path]
                found_vals == ResolvePath(targets[ti], expected_path)
                verified == VerifyValue(found_vals, expected_value, is_regexes)
            IN IF verified = "raise" THEN "raise"
               ELSE IF verified = "True"
                    THEN IF match_count + 1 >= Len(criteria) THEN "True"
                         ELSE EvaluateLoop(targets, criteria, is_regexes, ti, ci + 1, match_count + 1)
               ELSE EvaluateLoop(targets, criteria, is_regexes, ti, ci + 1, match_count)

(* VerifyReportSectionHasMatching.evaluate *)
HasMatchingEvaluate(rep, path, match_criteria, is_regexes) ==
  IF match_criteria.t = "null" THEN "True"
  ELSE EvaluateLoop(Targets(rep, path), match_criteria.v, is_regexes, 1, 1, 0)

(* VerifyReportSectionHasContent.evaluate: an inner verifier with the criteria [] *)
HasContentEvaluate(rep, path) ==
  IF CheckCriteriaFormat(PyList(<<>>)) = "ok" THEN HasContent(rep, path) ELSE "raise"

(* ---------------- inputs of the verifiers ---------------- *)

RECURSIVE SeqsOfLen(_, _)
SeqsOfLen(S, n) == IF n = 0 THEN {<<>>} ELSE {Append(q, x) : q \in SeqsOfLen(S, n - 1), x \in S}
SeqsUpTo(S, n) == UNION {SeqsOfLen(S, k) : k \in 0..n}

KA == <<"a">>
KB == <<"b">>
X == PyStr(<<"x">>)
Y == PyStr(<<"y">>)
Dict1(k, val) == PyDict(k :> val)
Dict2(va, vb) == PyDict(KA :> va @@ KB :> vb)

Scalars == {Null, X, PyInt(0), PyStr(<<>>), EmptyDict}
Elems == {Null, Dict1(KA, X), Dict1(KB, Y), Dict2(X, Y), Dict1(KA, PyList(<<Y, Null>>))}
Lists == {PyList(q) : q \in SeqsUpTo(Elems, MaxListLen)}
NestedLists == {PyList(<<PyList(<<Dict1(KA, X), Null>>), Dict1(KA, Y)>>),
                PyList(<<X, PyList(<<>>), Dict1(KA, Dict1(KB, Y))>>)}
Docs == Scalars \cup Lists \cup NestedLists
        \cup {Dict1(KA, val) : val \in Scalars \cup Elems \cup Lists \cup NestedLists}

Paths == {Join(ks) : ks \in SeqsUpTo({KA, KB}, MaxSegs) \ {<<>>}} \cup {<<>>, <<"a", "/">>}

CriterionPool == {Dict1(KA, X), Dict1(KB, Y), PyStr(KA), Dict2(X, Y), PyInt(0)}
CriteriaArgs == {Null, Dict1(KA, X)}
                \cup {PyList(q) : q \in SeqsUpTo(CriterionPool, MaxCriteria)}
ExpectedValues == {X, PyStr(<<"N", "o", "n", "e">>), PyStr(<<>>), Null, PyInt(0)}

(* ---------------- the verifier calls ---------------- *)

VInit ==
  /\ objects = <<>>
  /\ attached = {}
  /\ _objectives = <<>>
  /\ test_report = 0
  /\ stack = <<>>
  /\ passes = 0
  /\ passSet = {}
  /\ outcome = <<>>
  /\ finalized = {}
  /\ report_json \in Docs
  /\ verifier = NoVerifier
  /\ call = NoCall

(* VerifyReportSectionHasMatching.__init__ *)
Construct ==
  /\ call.op = "none"
  /\ \E path \in Paths, match_criteria \in CriteriaArgs, values_are_regexes \in BOOLEAN :
       LET checked == CheckCriteriaFormat(match_criteria) IN
       /\ verifier' = IF checked = "ok"
                      THEN [path |-> path, match_criteria |-> match_criteria,
                            is_regexes |-> values_are_regexes, constructed |-> TRUE]
                      ELSE verifier
       /\ call' = [op |-> "__init__", match_criteria |-> match_criteria, ret |-> checked]
  /\ UNCHANGED <<report_json, treevars>>

(* VerifyReportSectionHasMatching.evaluate on the report *)
Evaluate ==
  /\ call.op = "__init__"
  /\ verifier.constructed
  /\ call' = [op |-> "evaluate",
              ret |-> HasMatchingEvaluate(report_json, verifier.path,
                                          verifier.match_criteria, verifier.is_regexes)]
  /\ UNCHANGED <<report_json, verifier, treevars>>

(* VerifyReportSectionHasContent(path).evaluate on the report *)
EvaluateHasContent ==
  /\ call.op = "none"
  /\ \E path \in Paths :
       call' = [op |-> "VerifyReportSectionHasContent.evaluate", path |-> path,
                ret |-> HasContentEvaluate(report_json, path)]
  /\ UNCHANGED <<report_json, verifier, treevars>>

(* _resolve_path on the report *)
Resolve ==
  /\ call.op = "none"
  /\ \E path \in Paths :
       call' = [op |-> "_resolve_path", path |-> path, ret |-> ResolvePath(report_json, path)]
  /\ UNCHANGED <<report_json, verifier, treevars>>

(* _verify_value with the report value as the found value *)
Verify ==
  /\ call.op = "none"
  /\ \E expected \in ExpectedValues, is_regexes \in BOOLEAN :
       call' = [op |-> "_verify_value", expected |-> expected, is_regexes |-> is_regexes,
                ret |-> VerifyValue(report_json, expected, is_regexes)]
  /\ UNCHANGED <<report_json, verifier, treevars>>

VNext ==
  \/ Construct
  \/ Evaluate
  \/ EvaluateHasContent
  \/ Resolve
  \/ Verify

VSpec == VInit /\ [][VNext]_vars

(* ---------------- result projection ---------------- *)

(* the last objective of kids that carries the name n (a later dict assignment overwrites) *)
LastNamed(objs, kids, n) ==
  kids[CHOOSE k \in 1..Len(kids) :
         /\ objs[kids[k]].name = n
         /\ \A j \in (k+1)..Len(kids) : objs[kids[j]].name # n]

RECURSIVE ObjectiveGetResults(_, _)
(* CapeTestObjective.get_results *)
ObjectiveGetResults(objs, o) ==
  [state |-> objs[o].state,
   state_reason |-> objs[o].state_reason,
   children |-> [n \in ChildNames(objs, objs[o].children) |->
                   ObjectiveGetResults(objs, LastNamed(objs, objs[o].children, n))]]

(* CapeDynamicTestBase.get_results *)
GetResults ==
  [n \in ChildNames(objects, _objectives) |->
     ObjectiveGetResults(objects, LastNamed(objects, _objectives, n))]

(* ---------------- helpers of the properties ---------------- *)

HasParent(o) == \E p \in Ids : o \in SeqRange(objects[p].children)
Parent(o) == CHOOSE p \in Ids : o \in SeqRange(objects[p].children)
Siblings(o) ==
  IF HasParent(o) THEN SeqRange(objects[Parent(o)].children) \ {o}
  ELSE SeqRange(_objectives) \ {o}

RECURSIVE NamePath(_)
NamePath(o) ==
  IF HasParent(o) THEN Append(NamePath(Parent(o)), objects[o].name)
  ELSE <<objects[o].name>>

RECURSIVE Lookup(_, _)
(* the entry of a nested result structure at a path of names; "omitted" if there is none *)
Lookup(results, names) ==
  IF names[1] \notin DOMAIN results THEN [state |-> "omitted", state_reason |-> "omitted"]
  ELSE IF Len(names) = 1
       THEN [state |-> results[names[1]].state, state_reason |-> results[names[1]].state_reason]
       ELSE Lookup(results[names[1]].children, Tail(names))

OnStack(o) == \E k \in 1..Len(stack) : stack[k].self = o
PassOver == Idle /\ passes > 0
Terminal == {SUCCESS, FAILURE, ERROR, INFO, SKIPPED}
Dictated(r, inf) ==
  CASE r = "raise" -> ERROR
    [] r = "true" -> IF inf THEN INFO ELSE SUCCESS
    [] r = "false" -> IF inf THEN INFO ELSE FAILURE

(* C1: an objective that the current pass left in Failure, Error or Skipped has   *)
(* every descendant Skipped once its own call has returned, and none of its       *)
(* descendants had its verifier invoked in that pass.                             *)
C1_CascadingSkip ==
  \A o \in finalized :
    objects[o].state \in {FAILURE, ERROR, SKIPPED} =>
      \A d \in Descendants(objects, o) \cap passSet :
        /\ outcome[d] = "none"
        /\ (OnStack(o) \/ objects[d].state = SKIPPED)

C1_Witness ==
  /\ PassOver
  /\ \E r \in SeqRange(_objectives), c \in Ids, g \in Ids :
       /\ c \in SeqRange(objects[r].children)
       /\ g \in SeqRange(objects[c].children)
       /\ objects[r].state = FAILURE
       /\ objects[c].state = SKIPPED
       /\ objects[g].state = SKIPPED
       /\ objects[g].result_verifier = "bound"
       /\ outcome[g] = "none"

C3_InformationalOverride ==
  \A o \in finalized :
    (objects[o].is_informational /\ outcome[o] \in {"true", "false"}) =>
      /\ objects[o].state = INFO
      /\ objects[o].state_reason = (IF outcome[o] = "true" THEN "_success_msg" ELSE "_failure_msg")
      /\ PassOver =>
           \A c \in SeqRange(objects[o].children) \cap passSet :
             outcome[c] # "none" /\ objects[c].state # SKIPPED

C3_Witness ==
  /\ PassOver
  /\ \E o \in passSet, c \in passSet :
       /\ c \in SeqRange(objects[o].children)
       /\ objects[o].is_informational
       /\ outcome[o] = "false"
       /\ objects[o].state = INFO
       /\ objects[o].state_reason = "_failure_msg"
       /\ outcome[c] = "true"

(* C4: after a pass every objective that was in the tree when the pass started is *)
(* in one of Success, Failure, Error, Info, Skipped, and the nested result of     *)
(* get_results holds its state and reason under its path of names.                *)
C4_NoUntestedAfterPass ==
  PassOver =>
    \A o \in passSet :
      /\ objects[o].state \in Terminal
      /\ Lookup(GetResults, NamePath(o)) =
           [state |-> objects[o].state, state_reason |-> objects[o].state_reason]

C4_Witness ==
  /\ PassOver
  /\ Cardinality(passSet) = MaxObjs
  /\ \E o \in passSet : outcome[o] = "raise"
  /\ \E o \in passSet : objects[o].state = SKIPPED /\ HasParent(o)
  /\ \E o \in passSet : outcome[o] = "true"

(* C5: an objective that is being evaluated or whose verifier was invoked in the  *)
(* current pass has a parent whose state was already assigned in this pass and is *)
(* Success or Info.                                                               *)
C5_ParentBeforeChild ==
  \A c \in passSet :
    ((OnStack(c) \/ outcome[c] # "none") /\ HasParent(c)) =>
      /\ Parent(c) \in finalized
      /\ objects[Parent(c)].state \in {SUCCESS, INFO}
      /\ (~Idle => objects[c].report = test_report)

C5_Witness ==
  /\ ~Idle
  /\ Top.fn = "run_objective_verification"
  /\ Top.pc = "assign"
  /\ HasParent(Top.self)
  /\ HasParent(Parent(Top.self))
  /\ objects[Parent(Top.self)].state = INFO

(* ---------------- properties of the verifiers ---------------- *)

IsSingleEntryMapping(criterion) == criterion.t = "dict" /\ Cardinality(DOMAIN criterion.v) = 1
WellFormed(match_criteria) ==
  /\ match_criteria.t = "list"
  /\ \A k \in 1..Len(match_criteria.v) : IsSingleEntryMapping(match_criteria.v[k])

(* the criterion finds a witness value within the target element *)
Satisfies(target, criterion, is_regexes) ==
  /\ IsSingleEntryMapping(criterion)
  /\ LET key == CHOOSE k \in DOMAIN criterion.v : TRUE
     IN VerifyValue(ResolvePath(target, key), criterion.v[key], is_regexes) = "True"

SatisfiesAll(target, match_criteria, is_regexes) ==
  \A ci \in 1..Len(match_criteria.v) : Satisfies(target, match_criteria.v[ci], is_regexes)

(* C6: with a criteria list, evaluate returns true only if one single target      *)
(* element satisfies every criterion; when the criteria are well-formed and no    *)
(* single target element satisfies them all, it returns false.                    *)
C6_ElementLocal ==
  (call.op = "evaluate" /\ verifier.match_criteria.t = "list") =>
    LET targets == Targets(report_json, verifier.path)
        one == \E ti \in 1..Len(targets) :
                 SatisfiesAll(targets[ti], verifier.match_criteria, verifier.is_regexes)
    IN /\ call.ret = "True" => one
       /\ (WellFormed(verifier.match_criteria) /\ ~one) => call.ret = "False"

C6_Witness ==
  /\ call.op = "evaluate"
  /\ call.ret = "False"
  /\ WellFormed(verifier.match_criteria)
  /\ Len(verifier.match_criteria.v) = 2
  /\ LET targets == Targets(report_json, verifier.path)
         c1 == verifier.match_criteria.v[1]
         c2 == verifier.match_criteria.v[2]
         rx == verifier.is_regexes
     IN /\ Len(targets) = 2
        /\ Satisfies(targets[1], c1, rx) /\ ~Satisfies(targets[1], c2, rx)
        /\ Satisfies(targets[2], c2, rx) /\ ~Satisfies(targets[2], c1, rx)

RECURSIVE ReachList(_, _, _)
(* where the traversal of keys from data meets a list while keys remain: the list *)
(* and the index of the first remaining key, or found = FALSE                     *)
ReachList(current, keys, i) ==
  IF i > Len(keys) THEN [found |-> FALSE, node |-> Null, i |-> i]
  ELSE IF current.t = "list" THEN [found |-> TRUE, node |-> current, i |-> i]
  ELSE IF current.t = "dict" /\ keys[i] \in DOMAIN current.v
       THEN ReachList(current.v[keys[i]], keys, i + 1)
  ELSE [found |-> FALSE, node |-> Null, i |-> i]

(* a result as the sequence it contributes: a list's elements, nothing for None, else itself *)
Contribution(res) ==
  IF res.t = "list" THEN res.v ELSE IF res.t = "null" THEN <<>> ELSE <<res>>

RECURSIVE Concatenation(_)
Concatenation(seqs) == IF seqs = <<>> THEN <<>> ELSE Head(seqs) \o Concatenation(Tail(seqs))

(* the result of resolving the keys from the i-th on against each element of the list *)
ElementResults(node, keys, i) ==
  [k \in 1..Len(node.v) |-> ResolvePath(node.v[k], Join(SubSeq(keys, i, Len(keys))))]

(* C7: when the traversal meets a list while segments remain, _resolve_path       *)
(* returns the concatenation, in element order, of what resolving the remaining   *)
(* segments against each element contributes: the elements of a list result, a    *)
(* non-None result itself, nothing for None.                                      *)
C7_FanOut ==
  call.op = "_resolve_path" =>
    LET keys == Split(call.path)
        at == ReachList(report_json, keys, 1)
    IN at.found =>
         LET results == ElementResults(at.node, keys, at.i)
         IN call.ret = PyList(Concatenation([k \in 1..Len(results) |-> Contribution(results[k])]))

C7_Witness ==
  /\ call.op = "_resolve_path"
  /\ LET keys == Split(call.path)
         at == ReachList(report_json, keys, 1)
     IN /\ at.found
        /\ at.i > 1
        /\ Len(at.node.v) >= 2
        /\ LET results == ElementResults(at.node, keys, at.i)
           IN /\ \E k \in 1..Len(results) : results[k].t = "list" /\ Len(results[k].v) = 2
              /\ \E k \in 1..Len(results) : results[k].t = "null"
        /\ Len(call.ret.v) = 2

(* C8: when the found value is None or an empty list, _verify_value returns false *)
(* for every expected string, in exact mode and in regex mode.                    *)
C8_EmptyNeverMatches ==
  (/\ call.op = "_verify_value"
   /\ call.expected.t = "str"
   /\ (report_json.t = "null" \/ report_json = PyList(<<>>)))
  => call.ret = "False"

(* C9: VerifyReportSectionHasContent.evaluate returns true exactly when the path  *)
(* resolves to a non-empty list or to a value that is neither a list nor None.    *)
C9_ContentPresence ==
  call.op = "VerifyReportSectionHasContent.evaluate" =>
    LET res == ResolvePath(report_json, call.path)
    IN (call.ret = "True") <=>
         ((res.t = "list" /\ Len(res.v) > 0) \/ res.t \notin {"list", "null"})

(* C10: a criteria argument that is not None and is not a list of single-entry    *)
(* mappings is rejected by the constructor, and evaluate in exact-string mode     *)
(* never raises for a verifier the constructor accepted.                          *)
C10_EagerValidation ==
  /\ (call.op = "__init__" /\ call.match_criteria.t # "null"
        /\ ~WellFormed(call.match_criteria)) => call.ret # "ok"
  /\ (call.op = "evaluate" /\ ~verifier.is_regexes) => call.ret # "raise"

(* ---------------- re-running a pass ---------------- *)

RECURSIVE EvaluatedThisPass(_)
(* by the verifier outcomes of the current pass alone: the objective is a root, or *)
(* its parent is evaluated and its parent's outcome gives Success or Info          *)
EvaluatedThisPass(o) ==
  IF o \in SeqRange(_objectives) THEN TRUE
  ELSE LET p == Parent(o)
       IN /\ outcome[p] \in {"true", "false"}
          /\ (outcome[p] = "true" \/ objects[p].is_informational)
          /\ EvaluatedThisPass(p)

(* C11: in every pass, the first or a later one, an objective whose state the     *)
(* pass has assigned has the state and reason that the verifier outcomes of this  *)
(* pass alone give (Skipped below an objective that is not Success or Info, else  *)
(* what its own outcome dictates), an evaluated objective (every root included)   *)
(* holds the context of this pass, and when the pass is over every objective of   *)
(* the tree has been assigned.                                                    *)
C11_RerunOverwrites ==
  /\ \A o \in finalized :
       IF EvaluatedThisPass(o)
       THEN /\ outcome[o] # "none"
            /\ objects[o].state = Dictated(outcome[o], objects[o].is_informational)
            /\ objects[o].state_reason =
                 (CASE outcome[o] = "raise" -> "An exception was thrown during verification"
                    [] outcome[o] = "true" -> "_success_msg"
                    [] outcome[o] = "false" -> "_failure_msg")
            /\ objects[o].report = passes
       ELSE /\ outcome[o] = "none"
            /\ objects[o].state = SKIPPED
            /\ objects[o].state_reason = "The parent objective was not met"
  /\ PassOver => finalized = passSet

(* second pass: the root and its first child are evaluated and Success, while the *)
(* second child still shows Skipped from the first pass, so the first child was   *)
(* Skipped in the first pass too                                                  *)
C11_Witness ==
  /\ passes = 2
  /\ ~Idle
  /\ \E r \in SeqRange(_objectives) :
       /\ Len(objects[r].children) = 2
       /\ LET o1 == objects[r].children[1]
              o2 == objects[r].children[2]
          IN /\ r \in finalized /\ objects[r].state = SUCCESS
             /\ o1 \in finalized /\ objects[o1].state = SUCCESS /\ objects[o1].report = 2
             /\ o2 \notin finalized /\ objects[o2].state = SKIPPED
====
